---------------------------- MODULE Spec2Model ----------------------------
(***************************************************************************)
(* Model of reed-solomon-wasm (src/src/lib.rs): the ShardsCollection       *)
(* container, its Rust-side twin RsShardsCollection, and the two exported  *)
(* operations encode and decode.                                           *)
(*                                                                         *)
(* lib.rs delegates the coding itself to the reed_solomon crate            *)
(* (ReedSolomonEncoder / ReedSolomonDecoder), whose source is not in the   *)
(* repository; the model supplies it as the specification describes it:    *)
(* GF(2^8)                                                                 *)
(* arithmetic, a systematic Cauchy generator matrix, matrix-vector encode, *)
(* Gauss-Jordan decode and the error taxonomy.  Those definitions are      *)
(* grouped in the section "The coding engine" below.                       *)
(***************************************************************************)
EXTENDS Integers, Sequences, FiniteSets, TLC

(***************************************************************************)
(* Bounds of the model.                                                    *)
(***************************************************************************)
MaxK == 2
MaxM == 2
MaxLen == 2

(***************************************************************************)
(* Width of a shard index in lib.rs (u16).  Offsets are u32/usize; the     *)
(* bounds keep them far below 2^32, so they are plain integers here.       *)
(***************************************************************************)
U16 == 65536

(***************************************************************************)
(* The coding engine: GF(2^8).                                             *)
(***************************************************************************)
FieldSize == 256
GFPoly == 285
GFOrder == FieldSize - 1

RECURSIVE Xor(_, _)
Xor(a, b) ==
    IF a = 0 THEN b
    ELSE IF b = 0 THEN a
    ELSE (((a % 2) + (b % 2)) % 2) + 2 * Xor(a \div 2, b \div 2)

XTime(a) == IF 2 * a >= FieldSize THEN Xor(2 * a, GFPoly) ELSE 2 * a

\* Carry-less multiplication reduced modulo GFPoly, one bit of b at a time;
\* used only to build the tables.
RECURSIVE SlowMul(_, _)
SlowMul(a, b) ==
    IF b = 0 THEN 0
    ELSE Xor(IF b % 2 = 1 THEN a ELSE 0, SlowMul(XTime(a), b \div 2))

RECURSIVE GeneratorPower(_)
GeneratorPower(i) ==
    IF i = 0 THEN 1
    ELSE IF i % 2 = 1 THEN XTime(GeneratorPower(i - 1))
    ELSE LET h == GeneratorPower(i \div 2) IN SlowMul(h, h)

\* GFExp[i + 1] is the generator 2 raised to the power i, i in 0..254.
GFExp == SubSeq([i \in 1..GFOrder |-> GeneratorPower(i - 1)], 1, GFOrder)

\* GFLog[a] is the discrete logarithm of a, a in 1..255.
GFLog ==
    SubSeq([a \in 1..GFOrder |-> CHOOSE i \in 0..(GFOrder - 1) : GFExp[i + 1] = a],
           1, GFOrder)

gf_add(a, b) == Xor(a, b)

gf_mul(a, b) ==
    IF a = 0 \/ b = 0 THEN 0
    ELSE GFExp[((GFLog[a] + GFLog[b]) % GFOrder) + 1]

\* b # 0: division by zero is the engine's DivisionByZero, never requested.
gf_div(a, b) ==
    IF a = 0 THEN 0
    ELSE GFExp[((GFLog[a] - GFLog[b] + GFOrder) % GFOrder) + 1]

(***************************************************************************)
(* The coding engine: vectors and matrices over GF(2^8).  A shard is a     *)
(* sequence of bytes, a matrix a sequence of rows.                         *)
(***************************************************************************)
RECURSIVE SeqSumGF(_)
SeqSumGF(s) == IF s = <<>> THEN 0 ELSE gf_add(Head(s), SeqSumGF(Tail(s)))

\* Row (coefficients) times a list of shards, byte column by byte column.
RowTimesShards(row, shards, len) ==
    [b \in 1..len |-> SeqSumGF([i \in 1..Len(row) |-> gf_mul(row[i], shards[i][b])])]

\* Row r (0-based, r < k + m) of the systematic generator matrix: identity
\* for r < k, Cauchy 1 / (x_j xor y_c) with y_c = c, x_j = k + j for r = k + j.
GeneratorRow(k, r) ==
    [c \in 1..k |->
        IF r < k THEN (IF r = c - 1 THEN 1 ELSE 0)
        ELSE gf_div(1, Xor(r, c - 1))]

SwapRows(M, i, j) == [r \in 1..Len(M) |-> IF r = i THEN M[j] ELSE IF r = j THEN M[i] ELSE M[r]]

ScaleRow(row, f) == [c \in 1..Len(row) |-> gf_mul(row[c], f)]

AddScaled(row, other, f) == [c \in 1..Len(row) |-> gf_add(row[c], gf_mul(other[c], f))]

\* Gauss-Jordan elimination of the augmented matrix M (k rows of 2k
\* entries) from column c on; <<>> when no nonzero pivot exists.
RECURSIVE GaussJordan(_, _, _)
GaussJordan(M, c, k) ==
    IF c > k THEN M
    ELSE LET cand == {r \in c..k : M[r][c] # 0} IN
         IF cand = {} THEN <<>>
         ELSE LET p == CHOOSE r \in cand : \A q \in cand : r <= q
                  S == SwapRows(M, c, p)
                  piv == ScaleRow(S[c], gf_div(1, S[c][c]))
                  E == [r \in 1..k |->
                          IF r = c THEN piv ELSE AddScaled(S[r], piv, S[r][c])]
              IN GaussJordan(E, c + 1, k)

\* Inverse of the k x k matrix S, or <<>> when S is singular.
Invert(S, k) ==
    LET aug == [r \in 1..k |->
                  [c \in 1..(2 * k) |->
                      IF c <= k THEN S[r][c] ELSE IF c - k = r THEN 1 ELSE 0]]
        red == GaussJordan(aug, 1, k)
    IN IF red = <<>> THEN <<>>
       ELSE [r \in 1..k |-> [c \in 1..k |-> red[r][c + k]]]

(***************************************************************************)
(* The coding engine: results and parameter validation.                    *)
(***************************************************************************)
Ok(v) == [ok |-> TRUE, err |-> "", val |-> v]
Err(e, v) == [ok |-> FALSE, err |-> e, val |-> v]

\* build(k, m) fails with InvalidParameters unless k >= 1 and k + m fits
\* the field.
SupportedShardCount(k, m) == k >= 1 /\ k + m <= FieldSize

\* The concatenation of the shards ss, each of length len.
Flatten(ss, len) ==
    [i \in 1..(Len(ss) * len) |-> ss[((i - 1) \div len) + 1][((i - 1) % len) + 1]]

(***************************************************************************)
(* The coding engine: ReedSolomonEncoder.                                  *)
(***************************************************************************)
NoEncoder == [k |-> 0, m |-> 0, shard_bytes |-> 0, shards |-> <<>>]

ReedSolomonEncoder_new(original_count, recovery_count, shard_bytes) ==
    IF ~SupportedShardCount(original_count, recovery_count)
    THEN Err("InvalidParameters", NoEncoder)
    ELSE Ok([k |-> original_count, m |-> recovery_count,
             shard_bytes |-> shard_bytes, shards |-> <<>>])

Encoder_add_original_shard(enc, shard) ==
    IF Len(shard) # enc.shard_bytes THEN Err("ShardLengthMismatch", enc)
    ELSE IF Len(enc.shards) >= enc.k THEN Err("ShardCountMismatch", enc)
    ELSE Ok([enc EXCEPT !.shards = Append(@, shard)])

\* The m recovery shards, recovery row j being row k + j of the generator.
Encoder_encode(enc) ==
    IF Len(enc.shards) # enc.k THEN Err("ShardCountMismatch", <<>>)
    ELSE Ok([j \in 1..enc.m |->
               RowTimesShards(GeneratorRow(enc.k, enc.k + j - 1),
                              enc.shards, enc.shard_bytes)])

(***************************************************************************)
(* The coding engine: ReedSolomonDecoder.  original[i + 1] and             *)
(* recovery[j + 1] hold the shard received for original index i and        *)
(* recovery index j, <<>> while none was received.                         *)
(***************************************************************************)
NoDecoder == [k |-> 0, m |-> 0, shard_bytes |-> 0,
              original |-> <<>>, recovery |-> <<>>]

ReedSolomonDecoder_new(original_count, recovery_count, shard_bytes) ==
    IF ~SupportedShardCount(original_count, recovery_count)
    THEN Err("InvalidParameters", NoDecoder)
    ELSE Ok([k |-> original_count, m |-> recovery_count,
             shard_bytes |-> shard_bytes,
             original |-> [i \in 1..original_count |-> <<>>],
             recovery |-> [j \in 1..recovery_count |-> <<>>]])

Decoder_add_original_shard(dec, index, shard) ==
    IF index >= dec.k THEN Err("InvalidIndex", dec)
    ELSE IF Len(shard) # dec.shard_bytes THEN Err("ShardLengthMismatch", dec)
    ELSE IF dec.original[index + 1] # <<>> THEN Err("DuplicateIndex", dec)
    ELSE Ok([dec EXCEPT !.original[index + 1] = shard])

Decoder_add_recovery_shard(dec, index, shard) ==
    IF index >= dec.m THEN Err("InvalidIndex", dec)
    ELSE IF Len(shard) # dec.shard_bytes THEN Err("ShardLengthMismatch", dec)
    ELSE IF dec.recovery[index + 1] # <<>> THEN Err("DuplicateIndex", dec)
    ELSE Ok([dec EXCEPT !.recovery[index + 1] = shard])

\* The elements of the set of naturals S in ascending order.
RECURSIVE Ascending(_)
Ascending(S) ==
    IF S = {} THEN <<>>
    ELSE LET lo == CHOOSE x \in S : \A y \in S : x <= y
         IN <<lo>> \o Ascending(S \ {lo})

\* The restored originals as pairs <<index, shard>>, ascending by index.
Decoder_decode(dec) ==
    LET have_original == {i \in 0..(dec.k - 1) : dec.original[i + 1] # <<>>}
        have_recovery == {j \in 0..(dec.m - 1) : dec.recovery[j + 1] # <<>>}
        missing == (0..(dec.k - 1)) \ have_original
    IN IF Cardinality(have_original) + Cardinality(have_recovery) < dec.k
       THEN Err("TooFewShards", <<>>)
       ELSE IF missing = {} THEN Ok(<<>>)
       ELSE LET need == dec.k - Cardinality(have_original)
                recs == SubSeq(Ascending(have_recovery), 1, need)
                \* the selected global indices, ascending
                sel == Ascending(have_original)
                         \o [n \in 1..need |-> dec.k + recs[n]]
                S == [n \in 1..dec.k |-> GeneratorRow(dec.k, sel[n])]
                data == [n \in 1..dec.k |->
                           IF sel[n] < dec.k THEN dec.original[sel[n] + 1]
                           ELSE dec.recovery[sel[n] - dec.k + 1]]
                inv == Invert(S, dec.k)
                miss == Ascending(missing)
            IN IF inv = <<>> THEN Err("SingularMatrix", <<>>)
               ELSE Ok([n \in 1..Len(miss) |->
                          <<miss[n],
                            RowTimesShards(inv[miss[n] + 1], data,
                                           dec.shard_bytes)>>])

(***************************************************************************)
(* lib.rs: ShardsCollection and RsShardsCollection.  A collection is a     *)
(* record of length, shard_len, data and indices; indices is None or       *)
(* Some(v).                                                                *)
(***************************************************************************)
None == [some |-> FALSE, v |-> <<>>]
Some(v) == [some |-> TRUE, v |-> v]

NoCollection == [length |-> 0, shard_len |-> 0, data |-> <<>>, indices |-> None]

\* ShardsCollection::new; panics on a zero shard_len (division by zero) and
\* on an index array whose length differs from the computed length.
ShardsCollection_new(shard_len, data, indices) ==
    IF shard_len = 0 THEN Err("panic", NoCollection)
    ELSE LET length == Len(data) \div shard_len
         IN IF indices.some /\ Len(indices.v) # length
            THEN Err("panic", NoCollection)
            ELSE Ok([length |-> length, shard_len |-> shard_len,
                     data |-> data, indices |-> indices])

\* ShardsCollection::len
len(self) == self.length

\* chunk_at of both collections: bytes [begin, end) of data.
chunk_at(self, index) ==
    LET begin == index * self.shard_len
        end == begin + self.shard_len
    IN SubSeq(self.data, begin + 1, end)

\* Mutant of chunk_index_at: the index array is ignored.
ChunkIndexPositional(self, index) == index % U16

\* chunk_index_at of both collections.
chunk_index_at(self, index) ==
    IF self.indices.some THEN self.indices.v[index + 1] ELSE index % U16

\* impl From<RsShardsCollection> for ShardsCollection
FromRs(value) ==
    [length |-> value.length, shard_len |-> value.shard_len,
     data |-> value.data, indices |-> value.indices]

\* impl From<ShardsCollection> for RsShardsCollection
ToRs(value) ==
    [length |-> value.length, shard_len |-> value.shard_len,
     data |-> value.data, indices |-> value.indices]

(***************************************************************************)
(* lib.rs: rs_encode and encode.                                           *)
(***************************************************************************)
\* The loop of rs_encode from position i on; `?` returns the first error.
RECURSIVE EncodeAddLoop(_, _, _)
EncodeAddLoop(enc, shards, i) ==
    IF i >= shards.length THEN Ok(enc)
    ELSE LET r == Encoder_add_original_shard(enc, chunk_at(shards, i))
         IN IF r.ok THEN EncodeAddLoop(r.val, shards, i + 1) ELSE r

\* The collection rs_encode returns for the engine's recovery shards.
EncodeOutput(recovery_count, shard_bytes, shards, recovery) ==
    [length |-> recovery_count, shard_len |-> shards.shard_len,
     data |-> Flatten(recovery, shard_bytes), indices |-> None]

\* Mutant of EncoderNew: the collection's shard_len stands in for shard_bytes.
EncoderNewFromShardLen(recovery_count, shard_bytes, shards) ==
    ReedSolomonEncoder_new(shards.length, recovery_count, shards.shard_len)

\* ReedSolomonEncoder::new(shards.length, recovery_count, shard_bytes)
EncoderNew(recovery_count, shard_bytes, shards) ==
    ReedSolomonEncoder_new(shards.length, recovery_count, shard_bytes)

rs_encode(recovery_count, shard_bytes, shards) ==
    LET e == EncoderNew(recovery_count, shard_bytes, shards)
    IN IF ~e.ok THEN Err(e.err, NoCollection)
       ELSE LET a == EncodeAddLoop(e.val, shards, 0)
            IN IF ~a.ok THEN Err(a.err, NoCollection)
               ELSE LET result == Encoder_encode(a.val)
                    IN IF ~result.ok THEN Err(result.err, NoCollection)
                       ELSE Ok(EncodeOutput(recovery_count, shard_bytes, shards,
                                               result.val))

encode(recovery_count, shard_bytes, shards) ==
    LET result == rs_encode(recovery_count % U16, shard_bytes % U16, ToRs(shards))
    IN IF result.ok THEN Ok(FromRs(result.val)) ELSE result

(***************************************************************************)
(* lib.rs: rs_decode and decode.                                           *)
(***************************************************************************)
\* Mutant of Route: the recovery index is not rebased.
RouteNoRebase(idx, original_count) ==
    IF idx < original_count
    THEN [kind |-> "original", index |-> idx]
    ELSE [kind |-> "recovery", index |-> idx]

\* Mutant of Route: the boundary index counts as an original.
RouteInclusive(idx, original_count) ==
    IF idx <= original_count
    THEN [kind |-> "original", index |-> idx]
    ELSE [kind |-> "recovery", index |-> idx - original_count]

\* Where rs_decode sends a shard tagged idx: the original shard idx, or the
\* recovery shard idx - original_count.
Route(idx, original_count) ==
    IF idx < original_count
    THEN [kind |-> "original", index |-> idx]
    ELSE [kind |-> "recovery", index |-> idx - original_count]

\* Mutant of DecoderAdd: an error of the decoder is dropped.
DecoderAddLenient(dec, route, data) ==
    LET r == IF route.kind = "original"
             THEN Decoder_add_original_shard(dec, route.index, data)
             ELSE Decoder_add_recovery_shard(dec, route.index, data)
    IN IF r.ok THEN r ELSE Ok(dec)

\* decoder.add_original_shard(idx, data)? or decoder.add_recovery_shard(..)?
DecoderAdd(dec, route, data) ==
    IF route.kind = "original"
    THEN Decoder_add_original_shard(dec, route.index, data)
    ELSE Decoder_add_recovery_shard(dec, route.index, data)

\* The loop of rs_decode from position i on; `?` returns the first error.
\* log lists the calls made to the decoder, in order.
RECURSIVE DecodeAddLoop(_, _, _, _, _)
DecodeAddLoop(dec, original_count, shards, i, log) ==
    IF i >= shards.length THEN [res |-> Ok(dec), log |-> log]
    ELSE LET idx == chunk_index_at(shards, i)
             data == chunk_at(shards, i)
             route == Route(idx, original_count)
             r == DecoderAdd(dec, route, data)
             l == Append(log, [pos |-> i, kind |-> route.kind,
                               index |-> route.index, data |-> data])
         IN IF r.ok THEN DecodeAddLoop(r.val, original_count, shards, i + 1, l)
            ELSE [res |-> r, log |-> l]

\* Mutant of DecodeAddAll: the loop starts at position 1.
DecodeAddAllFromOne(dec, original_count, shards) ==
    DecodeAddLoop(dec, original_count, shards, 1, <<>>)

\* for i in 0..shards.length { ... }
DecodeAddAll(dec, original_count, shards) ==
    DecodeAddLoop(dec, original_count, shards, 0, <<>>)

\* Mutant of DecodeOutput: a restored shard is tagged with its position.
DecodeOutputPositional(shard_bytes, shards, restored) ==
    LET indices == [n \in 1..Len(restored) |-> (n - 1) % U16]
        data == Flatten([n \in 1..Len(restored) |-> restored[n][2]], shard_bytes)
    IN [length |-> Len(data), shard_len |-> shards.shard_len,
        data |-> data, indices |-> Some(indices)]

\* The collection rs_decode returns for the engine's restored originals.
DecodeOutput(shard_bytes, shards, restored) ==
    LET indices == [n \in 1..Len(restored) |-> restored[n][1] % U16]
        data == Flatten([n \in 1..Len(restored) |-> restored[n][2]], shard_bytes)
    IN [length |-> Len(data), shard_len |-> shards.shard_len,
        data |-> data, indices |-> Some(indices)]

\* Mutant of DecoderNew: the two counts are swapped.
DecoderNewSwapped(original_count, recovery_count, shard_bytes) ==
    ReedSolomonDecoder_new(recovery_count, original_count, shard_bytes)

\* ReedSolomonDecoder::new(original_count, recovery_count, shard_bytes)
DecoderNew(original_count, recovery_count, shard_bytes) ==
    ReedSolomonDecoder_new(original_count, recovery_count, shard_bytes)

\* rs_decode, returning its result and the log of the decoder calls.
rs_decode(original_count, recovery_count, shard_bytes, shards) ==
    LET d == DecoderNew(original_count, recovery_count, shard_bytes)
    IN IF ~d.ok THEN [res |-> Err(d.err, NoCollection), log |-> <<>>]
       ELSE LET a == DecodeAddAll(d.val, original_count, shards)
            IN IF ~a.res.ok THEN [res |-> Err(a.res.err, NoCollection), log |-> a.log]
               ELSE LET decoding_result == Decoder_decode(a.res.val)
                    IN IF ~decoding_result.ok
                       THEN [res |-> Err(decoding_result.err, NoCollection),
                             log |-> a.log]
                       ELSE [res |-> Ok(DecodeOutput(shard_bytes, shards,
                                                    decoding_result.val)),
                             log |-> a.log]

decode(original_count, recovery_count, shard_bytes, shards) ==
    LET r == rs_decode(original_count % U16, recovery_count % U16,
                       shard_bytes % U16, ToRs(shards))
    IN IF r.res.ok THEN [res |-> Ok(FromRs(r.res.val)), log |-> r.log] ELSE r

(***************************************************************************)
(* The state machine: a caller builds a collection of original shards,     *)
(* encodes it, builds a collection from some of the k + m shards (tagged   *)
(* rightly or wrongly) and decodes that.                                   *)
(***************************************************************************)
VARIABLES
    pc,         \* "start", "constructed", "encoded", "received", "decoded", "panicked"
    originals,  \* the collection handed to encode
    encArgs,    \* <<recovery_count, shard_bytes>> of the encode call
    encRes,     \* the result of encode
    received,   \* the collection handed to decode
    decArgs,    \* <<original_count, recovery_count, shard_bytes>> of the decode call
    decRes,     \* the result of decode
    decLog      \* the calls decode made to the decoder

vars == <<pc, originals, encArgs, encRes, received, decArgs, decRes, decLog>>

\* Inputs of the model.
Patterns == {"ascending", "descending"}

PatternByte(p, i) ==
    IF p = "ascending" THEN i % FieldSize ELSE (FieldSize - i) % FieldSize

PatternData(p, n) == [i \in 1..n |-> PatternByte(p, i)]

Identity(n) == [i \in 1..n |-> i - 1]

Reverse(q) == [i \in 1..Len(q) |-> q[Len(q) + 1 - i]]

RecoveryCounts == (0..MaxM) \cup {FieldSize - 1, FieldSize}

\* The constructor calls tried for the originals, <<shard_len, data, indices>>:
\* k whole shards of either pattern; and, for the ascending pattern, with
\* one byte more than k shards, with an index array, and with an index
\* array one entry too long.
OriginalInputs ==
    {<<l, PatternData(p, k * l), None>> : l \in 0..MaxLen, k \in 0..MaxK, p \in Patterns}
      \cup {<<l, PatternData("ascending", k * l + 1), None>> : l \in 2..MaxLen, k \in 0..MaxK}
      \cup {<<l, PatternData("ascending", k * l), Some(Identity(k))>> :
               l \in 1..MaxLen, k \in 0..MaxK}
      \cup {<<l, PatternData("ascending", k * l), Some(Identity(k + 1))>> :
               l \in 1..MaxLen, k \in 0..MaxK}

Init ==
    /\ pc = "start"
    /\ originals = NoCollection
    /\ encArgs = <<0, 0>>
    /\ encRes = Err("", NoCollection)
    /\ received = NoCollection
    /\ decArgs = <<0, 0, 0>>
    /\ decRes = Err("", NoCollection)
    /\ decLog = <<>>

\* new ShardsCollection(shard_len, data, indices) for the originals.
NewOriginals(shard_len, data, indices) ==
    /\ pc = "start"
    /\ LET c == ShardsCollection_new(shard_len, data, indices)
       IN /\ pc' = IF c.ok THEN "constructed" ELSE "panicked"
          /\ originals' = c.val
    /\ UNCHANGED <<encArgs, encRes, received, decArgs, decRes, decLog>>

\* encode(recovery_count, shard_bytes, originals)
Encode(recovery_count, shard_bytes) ==
    /\ pc = "constructed"
    /\ pc' = "encoded"
    /\ encArgs' = <<recovery_count, shard_bytes>>
    /\ encRes' = encode(recovery_count, shard_bytes, originals)
    /\ UNCHANGED <<originals, received, decArgs, decRes, decLog>>

\* Shard t of the k + m shards of the encoding; a zero shard for a tag that
\* names none of them.
CodewordShard(t) ==
    IF t < originals.length THEN chunk_at(originals, t)
    ELSE IF t < originals.length + encRes.val.length
         THEN chunk_at(encRes.val, t - originals.length)
         ELSE [b \in 1..originals.shard_len |-> 0]

\* new ShardsCollection(shard_len, data, indices) for the shards to decode:
\* the shards named by tags, with tags as the index array or with none.
NewReceived(tags, indices) ==
    /\ pc = "encoded"
    /\ encRes.ok
    /\ encArgs[1] <= MaxM
    /\ LET data == Flatten([n \in 1..Len(tags) |-> CodewordShard(tags[n])],
                        originals.shard_len)
           c == ShardsCollection_new(originals.shard_len, data, indices)
       IN /\ pc' = IF c.ok THEN "received" ELSE "panicked"
          /\ received' = c.val
    /\ UNCHANGED <<originals, encArgs, encRes, decArgs, decRes, decLog>>

\* decode(original_count, recovery_count, shard_bytes, received)
Decode(original_count, recovery_count, shard_bytes) ==
    /\ pc = "received"
    /\ pc' = "decoded"
    /\ decArgs' = <<original_count, recovery_count, shard_bytes>>
    /\ LET r == decode(original_count, recovery_count, shard_bytes, received)
       IN /\ decRes' = r.res
          /\ decLog' = r.log
    /\ UNCHANGED <<originals, encArgs, encRes, received>>

\* The arguments tried for decode: those of the encoding, and those that
\* differ from them in one place.
DecodeArgs ==
    LET k == originals.length
        m == encArgs[1]
        sb == encArgs[2]
    IN {<<oc, m, sb>> : oc \in {0, k, k + 1}}
         \cup {<<k, rc, sb>> : rc \in {FieldSize - 1, FieldSize}}
         \cup {<<k, m, sb + 1>>}

\* The index arrays tried for the shards to decode: any set of the k + m
\* indices in ascending or descending order, or in ascending order followed
\* by one more tag, which may repeat one or be k + m, the index of no shard.
ReceivedTags ==
    LET n == originals.length + encArgs[1]
    IN IF encArgs[1] > MaxM THEN {} ELSE
       {Ascending(T) : T \in SUBSET (0..(n - 1))}
         \cup {Reverse(Ascending(T)) : T \in SUBSET (0..(n - 1))}
         \cup {Append(Ascending(T), x) : T \in SUBSET (0..(n - 1)), x \in 0..n}

Next ==
    \/ /\ pc = "start"
       /\ \E in \in OriginalInputs : NewOriginals(in[1], in[2], in[3])
    \/ /\ pc = "constructed"
       /\ \E recovery_count \in RecoveryCounts, shard_bytes \in 0..MaxLen :
             Encode(recovery_count, shard_bytes)
    \/ /\ pc = "encoded"
       /\ \E tags \in ReceivedTags : NewReceived(tags, Some(tags))
    \/ /\ pc = "encoded"
       /\ \E n \in 0..(originals.length + MaxM) : NewReceived(Identity(n), None)
    \/ /\ pc = "received"
       /\ \E a \in DecodeArgs : Decode(a[1], a[2], a[3])

Spec == Init /\ [][Next]_vars

(***************************************************************************)
(* Vocabulary of the properties.  These read the state directly, not       *)
(* through the operators of lib.rs.                                        *)
(***************************************************************************)
Encoded == pc \in {"encoded", "received", "decoded"}
Decoded == pc = "decoded"

\* k, m and the shard length of the encoding.
K == originals.length
M == encArgs[1]
ShardLen == originals.shard_len

\* Bytes [i * l, (i + 1) * l) of data.
ShardOf(data, l, i) == SubSeq(data, i * l + 1, (i + 1) * l)

\* The global index carried by position i of the received collection.
TagAt(i) == IF received.indices.some THEN received.indices.v[i + 1] ELSE i

Positions == 0..(received.length - 1)
Tags == {TagAt(i) : i \in Positions}
TagsDistinct == Cardinality(Tags) = received.length

\* decode was called with the parameters of the encoding.
SameParameters == decArgs = <<K, M, ShardLen>>

\* The received shards are shards of the encoding under their own indices,
\* no index twice.
ShardsOfEncoding == TagsDistinct /\ Tags \subseteq 0..(K + M - 1)

\* The indices attached to the output of decode, by position.
OutIndices == decRes.val.indices.v

Failed(res, e) == ~res.ok /\ res.err = e /\ res.val = NoCollection

(***************************************************************************)
(* C1 (round trip): decode of at least k distinct shards of an encoding,   *)
(* called with the parameters of the encoding, succeeds and returns every  *)
(* original shard absent from the input, with the bytes of the original    *)
(* and tagged with its index.                                              *)
(***************************************************************************)
C1_RoundTrip ==
    (Decoded /\ SameParameters /\ ShardsOfEncoding /\ Cardinality(Tags) >= K) =>
        /\ decRes.ok
        /\ \A i \in (0..(K - 1)) \ Tags :
              \E p \in 1..Len(OutIndices) :
                 /\ OutIndices[p] = i
                 /\ ShardOf(decRes.val.data, ShardLen, p - 1)
                      = ShardOf(originals.data, ShardLen, i)

\* Both originals of a k = 2 encoding were erased and came back from the
\* two recovery shards.
C1_Witness ==
    /\ Decoded /\ SameParameters /\ ShardsOfEncoding /\ decRes.ok
    /\ K = 2
    /\ Tags = {2, 3}
    /\ Len(OutIndices) = 2
    /\ ShardOf(decRes.val.data, ShardLen, 0) = ShardOf(originals.data, ShardLen, 0)

(***************************************************************************)
(* C2 (erasure threshold): decode of distinct shards of an encoding,       *)
(* called with the parameters of the encoding, succeeds when at least k    *)
(* shards are present (at most m erased) and fails with TooFewShards,      *)
(* returning no shards, when fewer than k are present.                     *)
(***************************************************************************)
C2_ErasureThreshold ==
    (Decoded /\ SameParameters /\ ShardsOfEncoding) =>
        /\ Cardinality(Tags) >= K => decRes.ok
        /\ Cardinality(Tags) < K => Failed(decRes, "TooFewShards")

\* k = 2, m = 2, three of the four shards erased.
C2_Witness ==
    /\ Decoded /\ SameParameters /\ ShardsOfEncoding
    /\ K = 2 /\ M = 2
    /\ Cardinality(Tags) = 1
    /\ Failed(decRes, "TooFewShards")

(***************************************************************************)
(* C3 (encode output): a successful encode returns exactly m shards of the *)
(* input shard length, and chunk_index_at reports index k + j for          *)
(* position j.                                                             *)
(***************************************************************************)
C3_EncodeIndices ==
    (Encoded /\ encRes.ok) =>
        /\ len(encRes.val) = M
        /\ Len(encRes.val.data) = M * ShardLen
        /\ \A j \in 0..(M - 1) :
              /\ chunk_index_at(encRes.val, j) = K + j
              /\ Len(chunk_at(encRes.val, j)) = ShardLen

(***************************************************************************)
(* C4 (recovered shards only): the indices attached to the output of a     *)
(* successful decode are exactly the original indices below original_count *)
(* that no input shard carried, none twice; and when decode was called     *)
(* with the parameters of the encoding, the bytes at output position p are *)
(* the original shard of the index at position p.                          *)
(***************************************************************************)
C4_RecoveredOnly ==
    (Decoded /\ decRes.ok) =>
        /\ decRes.val.indices.some
        /\ {OutIndices[p] : p \in 1..Len(OutIndices)} = (0..(decArgs[1] - 1)) \ Tags
        /\ \A p, q \in 1..Len(OutIndices) : OutIndices[p] = OutIndices[q] => p = q
        /\ Len(decRes.val.data) = Len(OutIndices) * received.shard_len
        /\ SameParameters =>
              \A p \in 1..Len(OutIndices) :
                 ShardOf(decRes.val.data, ShardLen, p - 1)
                   = ShardOf(originals.data, ShardLen, OutIndices[p])

\* Original 0 and recovery shard 2 present, original 1 recovered.
C4_Witness ==
    /\ Decoded /\ decRes.ok /\ SameParameters
    /\ K = 2
    /\ Tags = {0, 2}
    /\ OutIndices = <<1>>

(***************************************************************************)
(* C5 (collection invariant): every collection made by the constructor     *)
(* from whole shards, by encode or by decode has data of length            *)
(* shard_len * length and, when it has an index array, one of exactly      *)
(* length entries; so the length of a decode result is the number of       *)
(* recovered shards, not of recovered bytes.                               *)
(***************************************************************************)
WellFormed(c) ==
    /\ Len(c.data) = c.shard_len * c.length
    /\ c.indices.some => Len(c.indices.v) = c.length

WholeShards(c) == Len(c.data) % c.shard_len = 0

C5_CollectionInvariant ==
    /\ (pc \notin {"start", "panicked"} /\ WholeShards(originals)) => WellFormed(originals)
    /\ (Encoded /\ encRes.ok) => WellFormed(encRes.val)
    /\ pc \in {"received", "decoded"} => WellFormed(received)
    /\ (Decoded /\ decRes.ok) =>
          /\ WellFormed(decRes.val)
          /\ len(decRes.val) = Len(OutIndices)

(***************************************************************************)
(* C6 (no-op decode): when the input holds all k originals, with or        *)
(* without recovery shards, decode called with the parameters of the       *)
(* encoding succeeds and returns an empty set: no shard, no index, no      *)
(* byte; and the input still holds the bytes it was built from.            *)
(***************************************************************************)
C6_NoOpDecode ==
    (Decoded /\ SameParameters /\ ShardsOfEncoding /\ (0..(K - 1)) \subseteq Tags) =>
        /\ decRes.ok
        /\ decRes.val.length = 0
        /\ decRes.val.data = <<>>
        /\ decRes.val.indices = Some(<<>>)
        /\ \A i \in Positions :
              ShardOf(received.data, ShardLen, i) = CodewordShard(TagAt(i))

\* Both originals and the first recovery shard present.
C6_Witness ==
    /\ Decoded /\ SameParameters /\ decRes.ok
    /\ K = 2
    /\ Tags = {0, 1, 2}
    /\ decRes.val.data = <<>>

(***************************************************************************)
(* C7 (duplicate rejection): when decode is called with supported counts   *)
(* and the shard length of the input, every input index is below           *)
(* original_count + recovery_count and two shards carry the same index,    *)
(* decode fails with DuplicateIndex and returns no shards, however many    *)
(* distinct shards are present.                                            *)
(***************************************************************************)
C7_DuplicateRejected ==
    (/\ Decoded
     /\ SupportedShardCount(decArgs[1], decArgs[2])
     /\ decArgs[3] = received.shard_len
     /\ \A t \in Tags : t < decArgs[1] + decArgs[2]
     /\ ~TagsDistinct) =>
        Failed(decRes, "DuplicateIndex")

\* Three distinct shards, enough for k = 2, and one of them twice.
C7_Witness ==
    /\ Decoded /\ SameParameters
    /\ K = 2
    /\ Cardinality(Tags) = 3
    /\ received.length = 4
    /\ Failed(decRes, "DuplicateIndex")

ParametersChecked(k, m, res) ==
    /\ (k = 0 \/ k + m > FieldSize) => Failed(res, "InvalidParameters")
    /\ (k >= 1 /\ k + m <= FieldSize) => res.err # "InvalidParameters"

C9_ParameterValidation ==
    /\ Encoded => ParametersChecked(K, M, encRes)
    /\ Decoded => ParametersChecked(decArgs[1], decArgs[2], decRes)

\* decode with original_count = 2 and recovery_count = 255.
C9_Witness ==
    /\ Decoded
    /\ decArgs[1] = 2 /\ decArgs[2] = FieldSize - 1
    /\ Failed(decRes, "InvalidParameters")

=============================================================================
